---- MODULE Spec2Model ----
(***************************************************************************)
(* A model of the movie ETL of practice/sprint1: the pipeline of the etl/  *)
(* package (main.py, extractor.py, esloader.py) and the pipeline of        *)
(* etl_author.py, run against one relational source and one document      *)
(* store; the transformation of etl_classy.py; and the movie list of the   *)
(* read API (web/main.py, web/es.py).                                      *)
(*                                                                         *)
(* Python values are tagged records, so that None, str, list and float     *)
(* can share a field: [t |-> "None"], [t |-> "str", v |-> <<chars>>],      *)
(* [t |-> "int", v |-> n], [t |-> "list", v |-> <<values>>],               *)
(* [t |-> "float", m |-> mantissa, e |-> decimals].  A str that holds the  *)
(* JSON text of a list is [t |-> "jsonlist", v |-> <<objects>>] and the    *)
(* JSON text of an object is [t |-> "jsonobj", v |-> object]; a dict is a  *)
(* TLA+ record.                                                            *)
(***************************************************************************)
EXTENDS Integers, Sequences, FiniteSets, TLC

VARIABLES
    variant,      \* which program runs: "etl" (the etl/ package) or "etl_author"
    db,           \* the relational source: movies, actors, movie_actors, writers
    index_name,   \* the index_name argument of ETL.load / load_to_es
    pc,           \* position of the run
    cursor,       \* number of movie rows the movie cursor has yielded
    movies,       \* ETL._extract_movies: movies / ETL.load: records
    writers_by_id,\* etl_author ETL.load: writers (load_writers_names())
    raised,       \* the exception that ended the run, or "" when none
    payload,      \* body of the last bulk POST, a sequence of str segments
    response,     \* items of the last bulk response
    log,          \* logger.error messages of etl_author load_to_es, this run
    es_index,     \* store: what the index-creation PUT was last sent
    es_store,     \* store: set of [index, id, doc], one per (index, id)
    posts,        \* number of bulk POSTs the store has answered, this run
    runs,         \* runs completed or aborted so far
    tr_in,        \* transform harness: the input [row, db]
    tr_out,       \* transform harness: the result of each variant
    queries,      \* parameter lists of the WRITERS_QUERY executions of the
                  \* last transformation
    web           \* read API: the request in hand and the reply to it

vars == <<variant, db, index_name, pc, cursor, movies, writers_by_id, raised,
          payload, response, log, es_index, es_store, posts, runs, tr_in, tr_out,
          queries, web>>

(***************************************************************************)
(* Bounds of the model.                                                    *)
(***************************************************************************)
MaxRecords == 3
MaxMovies == 2
MaxRuns == 2
MaxLinks == 2
MaxWriterIds == 3

(***************************************************************************)
(* Python values.                                                          *)
(***************************************************************************)
None == [t |-> "None"]
Str(s) == [t |-> "str", v |-> s]
PyInt(n) == [t |-> "int", v |-> n]
List(l) == [t |-> "list", v |-> l]
JsonList(l) == [t |-> "jsonlist", v |-> l]
JsonObj(o) == [t |-> "jsonobj", v |-> o]

IsNone(x) == x.t = "None"
IsStr(x) == x.t \in {"str", "jsonlist", "jsonobj"}

\* bool(x): None, '' and [] are falsy; a str holding JSON text is never empty.
Truthy(x) ==
    CASE x.t = "None" -> FALSE
      [] x.t = "str" -> Len(x.v) > 0
      [] x.t = "list" -> Len(x.v) > 0
      [] x.t = "int" -> x.v # 0
      [] OTHER -> TRUE

NA == <<"N", "/", "A">>
NONE_PATTERNS == {Str(NA), Str(<<>>)}

Digits == <<"0", "1", "2", "3", "4", "5", "6", "7", "8", "9">>
IsDigit(c) == \E i \in 1..10 : Digits[i] = c
DigitVal(c) == (CHOOSE i \in 1..10 : Digits[i] = c) - 1

RECURSIVE IntToChars(_)
\* str(n) for n >= 0
IntToChars(n) ==
    IF n < 10 THEN <<Digits[n + 1]>>
    ELSE IntToChars(n \div 10) \o <<Digits[(n % 10) + 1]>>

RECURSIVE ConcatAll(_)
\* ''.join(parts): the concatenation of a sequence of sequences
ConcatAll(parts) ==
    IF parts = <<>> THEN <<>> ELSE Head(parts) \o ConcatAll(Tail(parts))

RECURSIVE JoinSeq(_, _)
\* sep.join(parts) on sequences: parts[1] sep parts[2] sep ... parts[n]
JoinSeq(sep, parts) ==
    IF parts = <<>> THEN <<>>
    ELSE IF Len(parts) = 1 THEN Head(parts)
    ELSE Head(parts) \o sep \o JoinSeq(sep, Tail(parts))

\* Position of the first occurrence of sep in s, 0 when there is none.
FindSep(s, sep) ==
    LET hits == {i \in 1..(Len(s) - Len(sep) + 1) :
                     SubSeq(s, i, i + Len(sep) - 1) = sep}
    IN IF hits = {} THEN 0 ELSE CHOOSE i \in hits : \A j \in hits : i <= j

RECURSIVE SplitOn(_, _)
\* s.split(sep) for a non-empty separator, on character sequences
SplitOn(s, sep) ==
    LET i == FindSep(s, sep)
    IN IF i = 0 THEN <<s>>
       ELSE <<SubSeq(s, 1, i - 1)>> \o SplitOn(SubSeq(s, i + Len(sep), Len(s)), sep)

\* s.replace(' ', '')
RemoveSpaces(s) == SelectSeq(s, LAMBDA c : c # " ")

StrList(parts) == List([i \in 1..Len(parts) |-> Str(parts[i])])

(***************************************************************************)
(* ESLoader.load_to_es: building the bulk request.                         *)
(***************************************************************************)
NL == Str(<<"\n">>)
MOVIES == <<"m", "o", "v", "i", "e", "s">>
MY_ID == <<"m", "y", "_", "i", "d">>

\* 'my_id{index}'.format(index=index), the first position numbered as well
EtlMyIdAlwaysNumbered(index) == Str(MY_ID \o IntToChars(index))

\* 'my_id{index}'.format(index=index if index > 1 else '')
EtlMyId(index) == Str(MY_ID \o (IF index > 1 THEN IntToChars(index) ELSE <<>>))

\* etl/esloader.py: indices, one action object per position 1..len(records)
EtlIndices(records) ==
    [index \in 1..Len(records) |->
        [index |-> [_index |-> Str(MOVIES), _id |-> EtlMyId(index)]]]

\* etl/esloader.py: json_object_list, json.dumps of every element of every
\* (action, record) pair of zip(indices, records)
EtlJsonObjectList(records) ==
    LET indices == EtlIndices(records)
    IN ConcatAll([i \in 1..Len(records) |->
                     <<JsonObj(indices[i]), JsonObj(records[i])>>])

\* etl_author.py: ESLoader._get_es_bulk_query
AuthorGetEsBulkQuery(rows, index) ==
    ConcatAll([i \in 1..Len(rows) |->
                  <<JsonObj([index |-> [_index |-> index, _id |-> rows[i].id]]),
                    JsonObj(rows[i])>>])

\* '\n'.join(lines), the final newline forgotten
JoinLinesNoFinalNewline(lines) ==
    JoinSeq(<<NL>>, [i \in 1..Len(lines) |-> <<lines[i]>>])

\* '\n'.join(lines) + '\n', a str kept as the sequence of its segments: each
\* line (json.dumps never emits a raw newline) and each newline
JoinLines(lines) ==
    JoinSeq(<<NL>>, [i \in 1..Len(lines) |-> <<lines[i]>>]) \o <<NL>>

\* the request body each variant sends for (records, index_name)
BulkBody(v, records, index) ==
    IF v = "etl" THEN JoinLines(EtlJsonObjectList(records))
    ELSE JoinLines(AuthorGetEsBulkQuery(records, index))

(***************************************************************************)
(* The document store's bulk endpoint.                                     *)
(***************************************************************************)
RECURSIVE EsLines(_)
\* the body split on newlines; the text after the last newline is dropped
EsLines(body) ==
    IF body = <<>> THEN <<>>
    ELSE LET i == FindSep(body, <<NL>>)
         IN IF i = 0 THEN <<>>
            ELSE IF i = 1 THEN EsLines(Tail(body))
            ELSE <<body[1]>> \o EsLines(SubSeq(body, i + 1, Len(body)))

\* the (action, source) pairs of a body, in order
EsPairs(body) ==
    LET lines == EsLines(body)
    IN [k \in 1..(Len(lines) \div 2) |->
           [action |-> lines[2 * k - 1].v.index, source |-> lines[2 * k].v]]

\* one response item per pair, in submission order; rejected are the positions
\* the store refuses
EsItems(body, rejected) ==
    LET pairs == EsPairs(body)
    IN [k \in 1..Len(pairs) |->
           [index |-> [_index |-> pairs[k].action._index,
                       _id |-> pairs[k].action._id,
                       error |-> IF k \in rejected THEN Str(<<"e">>) ELSE None]]]

RECURSIVE EsApply(_, _, _, _)
\* index operations applied in order from pair k on: an index operation
\* replaces whatever the store holds at (_index, _id)
EsApply(store, pairs, rejected, k) ==
    IF k > Len(pairs) THEN store
    ELSE IF k \in rejected THEN EsApply(store, pairs, rejected, k + 1)
    ELSE LET a == pairs[k].action
             kept == {r \in store : ~(r.index = a._index /\ r.id = a._id)}
         IN EsApply(kept \cup {[index |-> a._index, id |-> a._id,
                                doc |-> pairs[k].source]},
                    pairs, rejected, k + 1)

\* the error field of every item logged, an absent one too
AuthorErrorsUnfiltered(items) == [i \in 1..Len(items) |-> items[i].index.error]

\* etl_author.py: the error messages load_to_es logs for a response
RECURSIVE AuthorErrors(_)
AuthorErrors(items) ==
    IF items = <<>> THEN <<>>
    ELSE LET error_message == Head(items).index.error
         IN (IF Truthy(error_message) THEN <<error_message>> ELSE <<>>)
            \o AuthorErrors(Tail(items))

(***************************************************************************)
(* ESLoader.load_to_es as a step of the run.                               *)
(***************************************************************************)
\* requests.post returns: the store answers with one item per pair
LoadToEs ==
    /\ pc = "Loading"
    /\ LET body == BulkBody(variant, movies, index_name)
       IN \E rejected \in SUBSET (1..Len(EsPairs(body))) :
            /\ payload' = body
            /\ response' = EsItems(body, rejected)
            /\ es_store' = EsApply(es_store, EsPairs(body), rejected, 1)
            /\ log' = IF variant = "etl_author"
                      THEN log \o AuthorErrors(EsItems(body, rejected))
                      ELSE log
    /\ posts' = posts + 1
    /\ pc' = "Done"
    /\ runs' = runs + 1
    /\ UNCHANGED <<variant, db, index_name, cursor, movies, writers_by_id,
                   raised, es_index, tr_in, tr_out, queries, web>>

\* requests.post raises (connection refused, timeout): nothing catches it
LoadToEsRaises ==
    /\ pc = "Loading"
    /\ payload' = BulkBody(variant, movies, index_name)
    /\ response' = <<>>
    /\ raised' = "ConnectionError"
    /\ pc' = "Failed"
    /\ runs' = runs + 1
    /\ UNCHANGED <<variant, db, index_name, cursor, movies, writers_by_id,
                   log, es_index, es_store, posts, tr_in, tr_out, queries, web>>


(***************************************************************************)
(* Results of calls that may raise: exc is "" and v the value returned, or *)
(* exc names the exception raised.                                         *)
(***************************************************************************)
Ok(value) == [exc |-> "", v |-> value]
Raise(name) == [exc |-> name, v |-> None]

Min(a, b) == IF a <= b THEN a ELSE b

RECURSIVE DigitsToInt(_)
DigitsToInt(cs) ==
    IF cs = <<>> THEN 0
    ELSE 10 * DigitsToInt(SubSeq(cs, 1, Len(cs) - 1)) + DigitVal(cs[Len(cs)])

RECURSIVE Strip(_)
\* s.strip() for spaces
Strip(s) ==
    IF s = <<>> THEN s
    ELSE IF Head(s) = " " THEN Strip(Tail(s))
    ELSE IF s[Len(s)] = " " THEN Strip(SubSeq(s, 1, Len(s) - 1))
    ELSE s

RECURSIVE Normal(_, _)
\* mantissa and decimals without trailing zero decimals
Normal(m, e) ==
    IF e > 0 /\ m % 10 = 0 THEN Normal(m \div 10, e - 1)
    ELSE [t |-> "float", m |-> m, e |-> e]

\* float(x) of a str of decimal digits with at most one point, after strip();
\* anything else of the alphabet used here is a ValueError, None a TypeError
PyFloat(x) ==
    IF x.t # "str" THEN Raise(IF IsNone(x) THEN "TypeError" ELSE "ValueError")
    ELSE LET s == Strip(x.v)
             parts == SplitOn(s, <<".">>)
             digits == ConcatAll(parts)
         IN IF /\ Len(parts) <= 2
               /\ digits # <<>>
               /\ \A i \in 1..Len(digits) : IsDigit(digits[i])
            THEN Ok(Normal(DigitsToInt(digits),
                           IF Len(parts) = 2 THEN Len(parts[2]) ELSE 0))
            ELSE Raise("ValueError")

\* json.loads(x): the list a JSON text holds; other text does not parse
JsonLoads(x) ==
    IF x.t = "jsonlist" THEN Ok(x.v)
    ELSE IF x.t = "jsonobj" THEN Ok(x.v)
    ELSE IF x.t = "str" THEN Raise("JSONDecodeError")
    ELSE Raise("TypeError")

(***************************************************************************)
(* etl/extractor.py: the queries and the transformation of one movie row.  *)
(***************************************************************************)
\* ETL._transform_value
EtlTransformValue(raw_value) ==
    IF raw_value \notin NONE_PATTERNS THEN raw_value ELSE None

\* the a.id, a.name of the actors joined to one movie_actors row; a row of
\* NULLs when no actor matches (LEFT JOIN)
JoinActors(d, link) ==
    LET hit == SelectSeq(d.actors, LAMBDA a : a.id = link.actor_id)
    IN IF hit = <<>> THEN <<[id |-> None, name |-> None]>> ELSE hit

\* FROM movie_actors ma LEFT JOIN actors a ... WHERE ma.movie_id = ?
ActorsOfMovie(d, movie_id) ==
    LET links == SelectSeq(d.movie_actors, LAMBDA l : l.movie_id = movie_id)
    IN ConcatAll([i \in 1..Len(links) |-> JoinActors(d, links[i])])

\* sort key of ORDER BY a.id: NULL sorts first
IdKey(x) == IF IsNone(x) THEN -1 ELSE x.v

RECURSIVE OrderById(_)
OrderById(rows) ==
    IF rows = <<>> THEN <<>>
    ELSE LET least == CHOOSE i \in 1..Len(rows) :
                         /\ \A j \in 1..Len(rows) : IdKey(rows[i].id) <= IdKey(rows[j].id)
                         /\ \A j \in 1..(i - 1) : IdKey(rows[j].id) # IdKey(rows[i].id)
         IN <<rows[least]>>
            \o OrderById(SubSeq(rows, 1, least - 1) \o SubSeq(rows, least + 1, Len(rows)))

\* ACTORS_QUERY
ActorsQuery(d, movie_id) == OrderById(ActorsOfMovie(d, movie_id))

\* a (list, names) pair, or (None, None) when either list is empty
ListsOrNone(people, names) ==
    IF people # <<>> /\ names # <<>>
    THEN [people |-> List(people), names |-> List(names)]
    ELSE [people |-> None, names |-> None]

\* the rows of a query as dicts of transformed values
TransformedRows(rows) ==
    [i \in 1..Len(rows) |-> [id |-> EtlTransformValue(rows[i].id),
                             name |-> EtlTransformValue(rows[i].name)]]

\* ETL._get_actors
EtlGetActors(d, movie_id) ==
    LET actors == TransformedRows(ActorsQuery(d, movie_id))
    IN ListsOrNone(actors, [i \in 1..Len(actors) |-> actors[i].name])

\* ETL._get_filter_on_writers
EtlGetFilterOnWriters(writer, writers) ==
    IF Truthy(writer) THEN Ok(<<writer>>)
    ELSE IF Truthy(writers)
    THEN LET ls == JsonLoads(writers)
         IN IF ls.exc # "" THEN ls
            ELSE Ok([i \in 1..Len(ls.v) |-> ls.v[i].id])
    ELSE Ok(<<>>)

RECURSIVE Distinct(_)
\* SELECT DISTINCT: a row equal to an earlier one is left out
Distinct(rows) ==
    IF rows = <<>> THEN <<>>
    ELSE LET init == Distinct(SubSeq(rows, 1, Len(rows) - 1))
             last == rows[Len(rows)]
         IN IF \E i \in 1..Len(init) : init[i] = last THEN init
            ELSE Append(init, last)

\* WRITERS_QUERY: the rows of writers whose id is in the filter, in table order
WritersQuery(d, filter_on_writers) ==
    Distinct(SelectSeq(d.writers,
        LAMBDA w : \E i \in 1..Len(filter_on_writers) : filter_on_writers[i] = w.id))

\* ETL._get_writers
EtlGetWriters(d, writer, writers) ==
    LET filter_on_writers == EtlGetFilterOnWriters(writer, writers)
    IN IF filter_on_writers.exc # "" THEN filter_on_writers
       ELSE LET found == TransformedRows(WritersQuery(d, filter_on_writers.v))
            IN Ok(ListsOrNone(found, [i \in 1..Len(found) |-> found[i].name]))

\* ETL._get_writers: the parameter lists WRITERS_QUERY is executed with; the
\* query is executed once, whatever the filter holds, unless building the
\* filter raised
EtlWriterQueries(writer, writers) ==
    LET filter_on_writers == EtlGetFilterOnWriters(writer, writers)
    IN IF filter_on_writers.exc # "" THEN <<>> ELSE <<filter_on_writers.v>>

\* value.split(', ') if value else None
EtlSplit(value) ==
    IF Truthy(value) THEN StrList(SplitOn(value.v, <<",", " ">>)) ELSE None

\* ETL._transform_data
EtlTransformData(d, row) ==
    LET movie_id == EtlTransformValue(row.id)
        a == EtlGetActors(d, movie_id)
        w == EtlGetWriters(d, row.writer, row.writers)
        rating == IF row.imdb_rating \in NONE_PATTERNS THEN Ok(None)
                  ELSE PyFloat(row.imdb_rating)
    IN IF w.exc # "" THEN w
       ELSE IF rating.exc # "" THEN rating
       ELSE Ok([id |-> movie_id,
                genre |-> EtlSplit(EtlTransformValue(row.genre)),
                writers |-> w.v.people,
                actors |-> a.people,
                writers_names |-> w.v.names,
                actors_names |-> a.names,
                imdb_rating |-> rating.v,
                title |-> EtlTransformValue(row.title),
                director |-> EtlSplit(EtlTransformValue(row.director)),
                description |-> EtlTransformValue(row.plot)])

(***************************************************************************)
(* etl_classy.py: the transformation of one movie row.  The code is that   *)
(* of etl/extractor.py but for _transform_value, the test of imdb_rating   *)
(* and the queries, which have no ORDER BY and no DISTINCT.                *)
(***************************************************************************)
\* a or b
PyOr(a, b) == IF Truthy(a) THEN a ELSE b

\* ETL._transform_value: extracted_value != ('N/A' or '')
ClassyTransformValue(extracted_value) ==
    IF extracted_value # PyOr(Str(NA), Str(<<>>)) THEN extracted_value ELSE None

ClassyTransformedRows(rows) ==
    [i \in 1..Len(rows) |-> [id |-> ClassyTransformValue(rows[i].id),
                             name |-> ClassyTransformValue(rows[i].name)]]

\* ETL._get_actors: the rows come in the order of movie_actors
ClassyGetActors(d, movie_id) ==
    LET actors == ClassyTransformedRows(ActorsOfMovie(d, movie_id))
    IN ListsOrNone(actors, [i \in 1..Len(actors) |-> actors[i].name])

\* ETL.WRITERS_QUERY: the rows of writers whose id is in the filter
ClassyWritersQuery(d, filter_on_writers) ==
    SelectSeq(d.writers,
        LAMBDA w : \E i \in 1..Len(filter_on_writers) : filter_on_writers[i] = w.id)

\* ETL._get_writers; _get_filter_on_writers is that of etl/extractor.py
ClassyGetWriters(d, writer, writers) ==
    LET filter_on_writers == EtlGetFilterOnWriters(writer, writers)
    IN IF filter_on_writers.exc # "" THEN filter_on_writers
       ELSE LET found == ClassyTransformedRows(ClassyWritersQuery(d, filter_on_writers.v))
            IN Ok(ListsOrNone(found, [i \in 1..Len(found) |-> found[i].name]))

\* value.split(', ') if value else None
ClassySplit(value) ==
    IF Truthy(value) THEN StrList(SplitOn(value.v, <<",", " ">>)) ELSE None

\* ETL._transform_data
ClassyTransformData(d, extracted_data) ==
    LET movie_id == ClassyTransformValue(extracted_data.id)
        a == ClassyGetActors(d, movie_id)
        w == ClassyGetWriters(d, extracted_data.writer, extracted_data.writers)
        rating == IF extracted_data.imdb_rating = PyOr(Str(NA), Str(<<>>)) THEN Ok(None)
                  ELSE PyFloat(extracted_data.imdb_rating)
    IN IF w.exc # "" THEN w
       ELSE IF rating.exc # "" THEN rating
       ELSE Ok([id |-> movie_id,
                imdb_rating |-> rating.v,
                genre |-> ClassySplit(ClassyTransformValue(extracted_data.genre)),
                title |-> ClassyTransformValue(extracted_data.title),
                description |-> ClassyTransformValue(extracted_data.plot),
                director |-> ClassySplit(ClassyTransformValue(extracted_data.director)),
                actors |-> a.people,
                actors_names |-> a.names,
                writers |-> w.v.people,
                writers_names |-> w.v.names])

(***************************************************************************)
(* etl_author.py: the query and the transformation of one movie row.       *)
(***************************************************************************)
\* a column value as text, as group_concat and || see it
AsText(x) == IF x.t = "int" THEN IntToChars(x.v) ELSE x.v

\* group_concat(column): the non-NULL values joined by ',', NULL when none
GroupConcat(values) ==
    LET present == SelectSeq(values, LAMBDA x : ~IsNone(x))
    IN IF present = <<>> THEN None
       ELSE Str(JoinSeq(<<",">>, [i \in 1..Len(present) |-> AsText(present[i])]))

\* the CASE of ETL.SQL: a lone writer id becomes the JSON list of one object
SqlWriters(m) ==
    IF m.writers = Str(<<>>)
    THEN (IF IsNone(m.writer) THEN None ELSE JsonList(<<[id |-> m.writer]>>))
    ELSE m.writers

\* one row of ETL.SQL, as dict_factory returns it
AuthorSqlRow(d, m) ==
    LET joined == ActorsOfMovie(d, m.id)
    IN [id |-> m.id, genre |-> m.genre, director |-> m.director, title |-> m.title,
        plot |-> m.plot, imdb_rating |-> m.imdb_rating,
        actors_ids |-> GroupConcat([i \in 1..Len(joined) |-> joined[i].id]),
        actors_names |-> GroupConcat([i \in 1..Len(joined) |-> joined[i].name]),
        writers |-> SqlWriters(m)]

RECURSIVE DictFromRows(_)
\* ETL.load_writers_names: a dict keyed by id, a later row replacing an
\* earlier one of the same id in place
DictFromRows(rows) ==
    IF rows = <<>> THEN <<>>
    ELSE LET init == DictFromRows(SubSeq(rows, 1, Len(rows) - 1))
             last == rows[Len(rows)]
         IN IF \E i \in 1..Len(init) : init[i].id = last.id
            THEN [i \in 1..Len(init) |-> IF init[i].id = last.id THEN last ELSE init[i]]
            ELSE Append(init, last)

AuthorLoadWritersNames(d) == DictFromRows(Distinct(d.writers))

HasKey(dict, key) == \E i \in 1..Len(dict) : dict[i].id = key
Lookup(dict, key) == dict[CHOOSE i \in 1..Len(dict) : dict[i].id = key]

RECURSIVE AuthorMovieWriters(_, _, _)
\* the loop over json.loads(row['writers']): acc is movie_writers so far
AuthorMovieWriters(ids, writers, acc) ==
    IF ids = <<>> THEN Ok(acc)
    ELSE LET writer_id == Head(ids).id
         IN IF ~HasKey(writers, writer_id) THEN Raise("KeyError")
            ELSE IF /\ Lookup(writers, writer_id).name # Str(NA)
                    /\ ~(\E i \in 1..Len(acc) : acc[i].id = writer_id)
            THEN AuthorMovieWriters(Tail(ids), writers,
                                    Append(acc, Lookup(writers, writer_id)))
            ELSE AuthorMovieWriters(Tail(ids), writers, acc)

\* the actors and actors_names of _transform_row
AuthorActors(row) ==
    IF ~IsNone(row.actors_ids) /\ ~IsNone(row.actors_names)
    THEN LET ids == SplitOn(row.actors_ids.v, <<",">>)
             names == SplitOn(row.actors_names.v, <<",">>)
             zipped == [i \in 1..Min(Len(ids), Len(names)) |->
                           [id |-> Str(ids[i]), name |-> Str(names[i])]]
         IN [people |-> List(SelectSeq(zipped, LAMBDA p : p.name # Str(NA))),
             names |-> StrList(SelectSeq(names, LAMBDA x : x # NA))]
    ELSE [people |-> List(<<>>), names |-> List(<<>>)]

\* ETL._transform_row
AuthorTransformRow(row, writers) ==
    LET loaded == JsonLoads(row.writers)
        w == IF loaded.exc # "" THEN loaded
             ELSE AuthorMovieWriters(loaded.v, writers, <<>>)
        a == AuthorActors(row)
        rating == IF row.imdb_rating # Str(NA) THEN PyFloat(row.imdb_rating)
                  ELSE Ok(None)
    IN IF w.exc # "" THEN w
       ELSE IF IsNone(row.genre) THEN Raise("AttributeError")
       ELSE IF rating.exc # "" THEN rating
       ELSE IF IsNone(row.director) THEN Raise("AttributeError")
       ELSE Ok([id |-> row.id,
                genre |-> StrList(SplitOn(RemoveSpaces(row.genre.v), <<",">>)),
                writers |-> List(w.v),
                actors |-> a.people,
                actors_names |-> a.names,
                writers_names |-> List([i \in 1..Len(w.v) |-> w.v[i].name]),
                imdb_rating |-> rating.v,
                title |-> row.title,
                director |-> IF row.director # Str(NA)
                             THEN StrList(SplitOn(row.director.v, <<",">>))
                             ELSE None,
                description |-> IF row.plot # Str(NA) THEN row.plot ELSE None])

(***************************************************************************)
(* A call of load_to_es on its own: any short list of records, any index   *)
(* name, against an empty store.                                           *)
(***************************************************************************)
Variants == {"etl", "etl_author"}

SeqsUpTo(S, n) == UNION {[1..k -> S] : k \in 0..n}

IndexNames == {Str(MOVIES), Str(<<"f">>)}

LoadIds == {Str(<<"a">>), Str(<<"b">>)}

LoadDocs == {[id |-> i, title |-> t] : i \in LoadIds, t \in {Str(<<"T">>), None}}

EmptyDb == [movies |-> <<>>, actors |-> <<>>, movie_actors |-> <<>>, writers |-> <<>>]

NoTransform == [row |-> None, db |-> EmptyDb]

\* request.args without a parameter; no request in hand
NoArgs == [limit |-> None, page |-> None, sort |-> None, sort_order |-> None,
           search |-> None]

NoRequest ==
    [args |-> NoArgs, at |-> "none", status |-> 0, message |-> "", get_list |-> <<>>,
     hits |-> <<>>]

InitLoad ==
    /\ variant \in Variants
    /\ db = EmptyDb
    /\ index_name \in IndexNames
    /\ pc = "Loading"
    /\ cursor = 0
    /\ movies \in SeqsUpTo(LoadDocs, MaxRecords)
    /\ writers_by_id = <<>>
    /\ raised = ""
    /\ payload = <<>>
    /\ response = <<>>
    /\ log = <<>>
    /\ es_index = None
    /\ es_store = {}
    /\ posts = 0
    /\ runs = 0
    /\ tr_in = NoTransform
    /\ tr_out = <<>>
    /\ queries = <<>>
    /\ web = NoRequest

NextLoad == LoadToEs \/ LoadToEsRaises

SpecLoad == InitLoad /\ [][NextLoad]_vars

(***************************************************************************)
(* The transformation of one movie on its own: one movie row and the       *)
(* tables it is joined to, drawn from three families (the actors vary, the *)
(* writers vary, the scalar columns vary), transformed by either variant.  *)
(***************************************************************************)
MovieId == Str(<<"t">>)

ActorIds == {PyInt(1), PyInt(2)}
ActorNames == {Str(<<"A">>), Str(NA), Str(<<>>), Str(<<"A", ",", "B">>)}
ActorRows == {[id |-> i, name |-> n] : i \in ActorIds, n \in ActorNames}

\* a link may name an actor the actors table does not hold
LinkRows == {[movie_id |-> MovieId, actor_id |-> PyInt(i)] : i \in 1..3}

WriterIds == {Str(<<"p">>), Str(<<"q">>)}
WriterNames == {Str(<<"A">>), Str(<<"B">>), Str(NA), Str(<<>>)}
WriterRows == {[id |-> i, name |-> n] : i \in WriterIds, n \in WriterNames}

\* tables of the rows whose id column is a key
KeyedTables(rows) ==
    {tb \in SeqsUpTo(rows, Cardinality({r.id : r \in rows})) :
        \A i, j \in 1..Len(tb) : tb[i].id = tb[j].id => i = j}

Malformed == Str(<<"[", "{">>)

\* the writer and writers columns of a movie: a lone id, a JSON list of
\* {id} objects, text that is no JSON, both a lone id and a list, or nothing
WriterColumns ==
    {[writer |-> w, writers |-> Str(<<>>)] : w \in WriterIds \cup {Str(<<>>)}}
    \cup {[writer |-> Str(<<>>), writers |-> JsonList([i \in 1..Len(ids) |-> [id |-> ids[i]]])] :
              ids \in SeqsUpTo(WriterIds, MaxWriterIds)}
    \cup {[writer |-> Str(<<>>), writers |-> Malformed]}
    \cup {[writer |-> Str(<<"p">>), writers |-> JsonList(<<[id |-> Str(<<"q">>)]>>)]}

DefaultRow ==
    [id |-> MovieId, imdb_rating |-> Str(<<"8", ".", "6">>),
     genre |-> Str(<<"G", ",", " ", "H">>), title |-> Str(<<"T">>),
     plot |-> Str(<<"P">>), director |-> Str(<<"D", ",", " ", "E">>),
     writer |-> Str(<<"p">>), writers |-> Str(<<>>)]

Ratings == {Str(<<"8", ".", "6">>), Str(NA), Str(<<>>), Str(<<"x">>)}
Genres == {Str(<<"G", ",", " ", "H">>), Str(<<"G", ",", "H">>), Str(NA), Str(<<>>)}
Directors == {Str(<<"D", ",", " ", "E">>), Str(<<"D", " ", "E", ",", "F">>), Str(NA),
              Str(<<>>)}
Titles == {Str(<<"T">>), Str(NA), Str(<<>>)}
Plots == {Str(<<"P">>), Str(NA), Str(<<>>)}

DefaultWriters == <<[id |-> Str(<<"p">>), name |-> Str(<<"A">>)]>>

TransformInputs ==
    {[row |-> DefaultRow,
      db |-> [movies |-> <<DefaultRow>>, actors |-> a, movie_actors |-> l,
              writers |-> DefaultWriters]] :
         a \in KeyedTables(ActorRows), l \in SeqsUpTo(LinkRows, MaxLinks)}
    \cup
    {[row |-> [DefaultRow EXCEPT !.writer = c.writer, !.writers = c.writers],
      db |-> [movies |-> <<[DefaultRow EXCEPT !.writer = c.writer, !.writers = c.writers]>>,
              actors |-> <<>>, movie_actors |-> <<>>, writers |-> w]] :
         c \in WriterColumns, w \in KeyedTables(WriterRows)}
    \cup
    {[row |-> m,
      db |-> [movies |-> <<m>>, actors |-> <<>>, movie_actors |-> <<>>,
              writers |-> DefaultWriters]] :
         m \in {[DefaultRow EXCEPT !.imdb_rating = r, !.genre = g, !.director = dr,
                                   !.title = ti, !.plot = pl] :
                    r \in Ratings, g \in Genres, dr \in Directors, ti \in Titles,
                    pl \in Plots}}

\* the programs that transform a movie row
TransformVariants == Variants \cup {"etl_classy"}

InitTransform ==
    /\ variant \in TransformVariants
    /\ tr_in \in TransformInputs
    /\ tr_out = <<>>
    /\ queries = <<>>
    /\ web = NoRequest
    /\ db = EmptyDb
    /\ index_name = Str(MOVIES)
    /\ pc = "Call"
    /\ cursor = 0
    /\ movies = <<>>
    /\ writers_by_id = <<>>
    /\ raised = ""
    /\ payload = <<>>
    /\ response = <<>>
    /\ log = <<>>
    /\ es_index = None
    /\ es_store = {}
    /\ posts = 0
    /\ runs = 0

\* what the variant makes of a movie row of the source d
TransformMovie(v, d, m, writers) ==
    IF v = "etl" THEN EtlTransformData(d, m)
    ELSE IF v = "etl_classy" THEN ClassyTransformData(d, m)
    ELSE AuthorTransformRow(AuthorSqlRow(d, m), writers)

\* the executions of WRITERS_QUERY the transformation of a movie row makes:
\* etl_author.py looks the writers up in the dict loaded beforehand
WriterQueries(v, m) ==
    IF v \in {"etl", "etl_classy"} THEN EtlWriterQueries(m.writer, m.writers)
    ELSE <<>>

\* the variant's transformation of the movie returns a Document
TransformReturns ==
    /\ pc = "Call"
    /\ LET r == TransformMovie(variant, tr_in.db, tr_in.row,
                               AuthorLoadWritersNames(tr_in.db))
       IN /\ r.exc = ""
          /\ tr_out' = <<r.v>>
    /\ queries' = WriterQueries(variant, tr_in.row)
    /\ pc' = "Returned"
    /\ UNCHANGED <<variant, db, index_name, cursor, movies, writers_by_id, raised,
                   payload, response, log, es_index, es_store, posts, runs, tr_in,
                   web>>

\* the variant's transformation of the movie raises
TransformRaises ==
    /\ pc = "Call"
    /\ LET r == TransformMovie(variant, tr_in.db, tr_in.row,
                               AuthorLoadWritersNames(tr_in.db))
       IN /\ r.exc # ""
          /\ raised' = r.exc
    /\ queries' = WriterQueries(variant, tr_in.row)
    /\ pc' = "Raised"
    /\ UNCHANGED <<variant, db, index_name, cursor, movies, writers_by_id,
                   payload, response, log, es_index, es_store, posts, runs,
                   tr_in, tr_out, web>>

NextTransform == TransformReturns \/ TransformRaises

SpecTransform == InitTransform /\ [][NextTransform]_vars

(***************************************************************************)
(* The pipeline run: main() of the etl/ package (create_index, then        *)
(* ETL.load) and ETL.load of etl_author.py, run again and again on an      *)
(* unchanged source against the same store.                                *)
(***************************************************************************)
MovieIdChars == <<"t", "u", "w", "x", "y", "z">>

\* what a movie row can be, its id aside: a lone writer, a JSON list of
\* writers, writers that is no JSON, a rating that is no number
MovieKinds ==
    {DefaultRow,
     [DefaultRow EXCEPT !.writer = Str(<<>>),
                        !.writers = JsonList(<<[id |-> Str(<<"p">>)], [id |-> Str(<<"q">>)]>>)],
     [DefaultRow EXCEPT !.writer = Str(<<>>), !.writers = Malformed],
     [DefaultRow EXCEPT !.imdb_rating = Str(<<"x">>)]}

\* the movies tables of up to MaxMovies rows, the i-th row with the i-th id
MovieTables ==
    {[i \in 1..Len(kinds) |-> [kinds[i] EXCEPT !.id = Str(<<MovieIdChars[i]>>)]] :
        kinds \in SeqsUpTo(MovieKinds, MaxMovies)}

\* every movie plays actor 1; actor 2 has no name
RunDb(rows) ==
    [movies |-> rows,
     actors |-> <<[id |-> PyInt(1), name |-> Str(<<"A">>)],
                  [id |-> PyInt(2), name |-> Str(NA)]>>,
     movie_actors |-> [i \in 1..Len(rows) |-> [movie_id |-> rows[i].id, actor_id |-> PyInt(1)]],
     writers |-> <<[id |-> Str(<<"q">>), name |-> Str(<<"B">>)],
                   [id |-> Str(<<"p">>), name |-> Str(<<"A">>)]>>]

Init ==
    /\ variant \in Variants
    /\ db \in {RunDb(rows) : rows \in MovieTables}
    /\ index_name \in (IF variant = "etl" THEN {Str(MOVIES)} ELSE IndexNames)
    /\ pc = "Idle"
    /\ cursor = 0
    /\ movies = <<>>
    /\ writers_by_id = <<>>
    /\ raised = ""
    /\ payload = <<>>
    /\ response = <<>>
    /\ log = <<>>
    /\ es_index = None
    /\ es_store = {}
    /\ posts = 0
    /\ runs = 0
    /\ tr_in = NoTransform
    /\ tr_out = <<>>
    /\ queries = <<>>
    /\ web = NoRequest

\* etl/main.py: main() is entered and calls create_index
StartMain ==
    /\ pc = "Idle"
    /\ variant = "etl"
    /\ pc' = "EnsuringIndex"
    /\ UNCHANGED <<variant, db, index_name, cursor, movies, writers_by_id, raised,
                   payload, response, log, es_index, es_store, posts, runs,
                   tr_in, tr_out, queries, web>>

\* ESLoader.create_index returns: the mapping was PUT to self.url (the path
\* after the host is empty, index_name is not used), and the answer of the
\* store (index created, index already exists, another failure) is not
\* looked at
CreateIndex ==
    /\ pc = "EnsuringIndex"
    /\ \E answer \in {"created", "exists", "error"} :
          es_index' = [t |-> "put", url |-> <<>>, answer |-> answer]
    /\ pc' = "Extracting"
    /\ UNCHANGED <<variant, db, index_name, cursor, movies, writers_by_id, raised,
                   payload, response, log, es_store, posts, runs, tr_in, tr_out,
                   queries, web>>

\* ESLoader.create_index raises: the mapping file cannot be opened or the
\* store cannot be reached
CreateIndexRaises ==
    /\ pc = "EnsuringIndex"
    /\ \E e \in {"FileNotFoundError", "ConnectionError"} : raised' = e
    /\ pc' = "Failed"
    /\ runs' = runs + 1
    /\ UNCHANGED <<variant, db, index_name, cursor, movies, writers_by_id,
                   payload, response, log, es_index, es_store, posts, tr_in, tr_out,
                   queries, web>>

\* etl_author.py: ETL.load is entered and loads the writers
StartLoad ==
    /\ pc = "Idle"
    /\ variant = "etl_author"
    /\ writers_by_id' = AuthorLoadWritersNames(db)
    /\ pc' = "Extracting"
    /\ UNCHANGED <<variant, db, index_name, cursor, movies, raised,
                   payload, response, log, es_index, es_store, posts, runs,
                   tr_in, tr_out, queries, web>>

\* the movie cursor yields its next row
FetchRow ==
    /\ pc = "Extracting"
    /\ cursor < Len(db.movies)
    /\ cursor' = cursor + 1
    /\ pc' = "Transforming"
    /\ UNCHANGED <<variant, db, index_name, movies, writers_by_id, raised,
                   payload, response, log, es_index, es_store, posts, runs,
                   tr_in, tr_out, queries, web>>

\* the movie cursor is exhausted: load_to_es is called with the list
FetchDone ==
    /\ pc = "Extracting"
    /\ cursor = Len(db.movies)
    /\ pc' = "Loading"
    /\ UNCHANGED <<variant, db, index_name, cursor, movies, writers_by_id, raised,
                   payload, response, log, es_index, es_store, posts, runs,
                   tr_in, tr_out, queries, web>>

\* the movie query raises
FetchRaises ==
    /\ pc = "Extracting"
    /\ raised' = "OperationalError"
    /\ pc' = "Failed"
    /\ runs' = runs + 1
    /\ UNCHANGED <<variant, db, index_name, cursor, movies, writers_by_id,
                   payload, response, log, es_index, es_store, posts, tr_in, tr_out,
                   queries, web>>

\* _transform_data / _transform_row returns the Document of the row, which
\* is appended to the list
TransformRow ==
    /\ pc = "Transforming"
    /\ LET r == TransformMovie(variant, db, db.movies[cursor], writers_by_id)
       IN /\ r.exc = ""
          /\ movies' = Append(movies, r.v)
    /\ queries' = WriterQueries(variant, db.movies[cursor])
    /\ pc' = "Extracting"
    /\ UNCHANGED <<variant, db, index_name, cursor, writers_by_id, raised,
                   payload, response, log, es_index, es_store, posts, runs,
                   tr_in, tr_out, web>>

\* _transform_data / _transform_row raises: nothing catches it
TransformRowRaises ==
    /\ pc = "Transforming"
    /\ LET r == TransformMovie(variant, db, db.movies[cursor], writers_by_id)
       IN /\ r.exc # ""
          /\ raised' = r.exc
    /\ queries' = WriterQueries(variant, db.movies[cursor])
    /\ pc' = "Failed"
    /\ runs' = runs + 1
    /\ UNCHANGED <<variant, db, index_name, cursor, movies, writers_by_id,
                   payload, response, log, es_index, es_store, posts, tr_in, tr_out,
                   web>>

\* the program is started once more, on the same source and store
Rerun ==
    /\ pc \in {"Done", "Failed"}
    /\ runs < MaxRuns
    /\ pc' = "Idle"
    /\ cursor' = 0
    /\ movies' = <<>>
    /\ writers_by_id' = <<>>
    /\ raised' = ""
    /\ payload' = <<>>
    /\ response' = <<>>
    /\ log' = <<>>
    /\ posts' = 0
    /\ queries' = <<>>
    /\ UNCHANGED <<variant, db, index_name, es_index, es_store, runs, tr_in, tr_out,
                   web>>

Next ==
    \/ StartMain
    \/ CreateIndex
    \/ CreateIndexRaises
    \/ StartLoad
    \/ FetchRow
    \/ FetchDone
    \/ FetchRaises
    \/ TransformRow
    \/ TransformRowRaises
    \/ LoadToEs
    \/ LoadToEsRaises
    \/ Rerun

Spec == Init /\ [][Next]_vars

(***************************************************************************)
(* Properties of the bulk request and of the handling of its response.     *)
(***************************************************************************)
\* the lines of the last request body, newlines left out
PayloadLines == SelectSeq(payload, LAMBDA seg : seg # NL)

\* C1: in every bulk request, the action line emitted for records[i] carries
\* _id = records[i]['id'] and _index = the index_name argument.
C1_ActionCarriesRealIdAndIndex ==
    payload # <<>> =>
        /\ Len(PayloadLines) = 2 * Len(movies)
        /\ \A i \in 1..Len(movies) :
              /\ PayloadLines[2 * i - 1].v.index._id = movies[i].id
              /\ PayloadLines[2 * i - 1].v.index._index = index_name

\* C3: the body built for n records is 2n lines, each followed by a newline
\* (a lone newline when n = 0); line 2i-1 is the action line generated for
\* the i-th record and line 2i is json.dumps of that same record.
C3_BodyIsOrderedPairs ==
    payload # <<>> =>
        LET n == Len(movies)
        IN /\ Len(payload) = (IF n = 0 THEN 1 ELSE 4 * n)
           /\ \A k \in 1..Len(payload) :
                 (payload[k] = NL) <=> (k % 2 = 0 \/ n = 0)
           /\ \A i \in 1..n :
                 /\ payload[4 * i - 3].t = "jsonobj"
                 /\ DOMAIN payload[4 * i - 3].v = {"index"}
                 /\ payload[4 * i - 3].v.index._id
                        = (IF variant = "etl" THEN EtlMyId(i) ELSE movies[i].id)
                 /\ payload[4 * i - 3].v.index._index
                        = (IF variant = "etl" THEN Str(MOVIES) ELSE index_name)
                 /\ payload[4 * i - 1] = JsonObj(movies[i])

\* C3 witness: a body was built for three records, not all alike.
C3_Witness ==
    /\ payload # <<>>
    /\ Len(movies) = 3
    /\ movies[1] # movies[2]
    /\ movies[2].id # movies[3].id

\* C9: after the first call returned with a response, there is one recorded
\* outcome per submitted record, the i-th naming the id of the i-th record and
\* failed exactly when the i-th item carries an error.
C9_OneResultPerDocument ==
    (pc = "Done" /\ runs = 1) =>
        /\ Len(log) = Len(movies)
        /\ \A i \in 1..Len(movies) :
              /\ "id" \in DOMAIN log[i]
              /\ log[i].id = movies[i].id
              /\ "ok" \in DOMAIN log[i]
              /\ log[i].ok = ~Truthy(response[i].index.error)

(***************************************************************************)
(* Properties of the Documents the transformation returns.                 *)
(***************************************************************************)
\* the Document returned for tr_in
Document == tr_out[1]

\* a list of people and the list of its names, element by element
Parallel(people, names) ==
    \/ IsNone(people) /\ IsNone(names)
    \/ /\ people.t = "list"
       /\ names.t = "list"
       /\ Len(people.v) = Len(names.v)
       /\ \A i \in 1..Len(people.v) : names.v[i] = people.v[i].name

\* C4: in every Document, writers_names is the list of the names of writers
\* and actors_names is the list of the names of actors, of the same length.
C4_NamesParallelToPeople ==
    pc = "Returned" =>
        /\ Parallel(Document.writers, Document.writers_names)
        /\ Parallel(Document.actors, Document.actors_names)

\* a list (or None) holds no person whose name is a null-sentinel or null
NoSentinelPerson(people) ==
    IsNone(people) \/
        \A i \in 1..Len(people.v) :
            /\ ~IsNone(people.v[i].name)
            /\ people.v[i].name \notin NONE_PATTERNS

\* C5: no Document holds, in writers or actors, a person whose source name is
\* "N/A" or "": such a person is dropped, not kept with the sentinel or a null
\* as its name.
C5_SentinelPeopleDropped ==
    pc = "Returned" =>
        /\ NoSentinelPerson(Document.writers)
        /\ NoSentinelPerson(Document.actors)

\* both fields of a pair are null, or both are non-empty lists
BothNullOrBothNonEmpty(people, names) ==
    \/ IsNone(people) /\ IsNone(names)
    \/ /\ people.t = "list" /\ Len(people.v) > 0
       /\ names.t = "list" /\ Len(names.v) > 0

\* the movie has no actor (no writer) in the source whose name is not a sentinel
NoActorSurvives ==
    \A i \in 1..Len(ActorsOfMovie(tr_in.db, tr_in.row.id)) :
        LET a == ActorsOfMovie(tr_in.db, tr_in.row.id)[i]
        IN IsNone(a.name) \/ a.name \in NONE_PATTERNS

\* the writer id list of the movie: the lone writer, else the ids of writers
ResolvedWriterIds ==
    IF Truthy(tr_in.row.writer) THEN <<tr_in.row.writer>>
    ELSE IF tr_in.row.writers.t = "jsonlist"
    THEN [i \in 1..Len(tr_in.row.writers.v) |-> tr_in.row.writers.v[i].id]
    ELSE <<>>

NoWriterSurvives ==
    \A i \in 1..Len(tr_in.db.writers) :
        LET w == tr_in.db.writers[i]
        IN (\E k \in 1..Len(ResolvedWriterIds) : ResolvedWriterIds[k] = w.id)
               => w.name \in NONE_PATTERNS

\* C6: a pair (actors, actors_names) or (writers, writers_names) is both null
\* or both non-empty, never an empty list, and is null when nobody survives
\* the sentinel filtering.
C6_EmptyPairsAreNull ==
    pc = "Returned" =>
        /\ BothNullOrBothNonEmpty(Document.actors, Document.actors_names)
        /\ BothNullOrBothNonEmpty(Document.writers, Document.writers_names)
        /\ NoActorSurvives => IsNone(Document.actors) /\ IsNone(Document.actors_names)
        /\ NoWriterSurvives => IsNone(Document.writers) /\ IsNone(Document.writers_names)

\* position of the first occurrence of x in ids
FirstPos(ids, x) == CHOOSE i \in 1..Len(ids) : ids[i] = x /\ \A j \in 1..(i - 1) : ids[j] # x

\* the ids of the writers of the Document, in order
DocumentWriterIds ==
    IF IsNone(Document.writers) THEN <<>>
    ELSE [i \in 1..Len(Document.writers.v) |-> Document.writers.v[i].id]

\* some id occurs twice in the list
HasRepeat(ids) == \E i, j \in 1..Len(ids) : i < j /\ ids[i] = ids[j]

\* C7: when the movie's writer-id list repeats an id, the writers of its
\* Document are distinct ids of that list, in the order of their first
\* occurrence in it.
C7_WritersInFirstOccurrenceOrder ==
    (pc = "Returned" /\ HasRepeat(ResolvedWriterIds)) =>
        LET out == DocumentWriterIds
            ids == ResolvedWriterIds
        IN /\ \A i \in 1..Len(out) : \E k \in 1..Len(ids) : ids[k] = out[i]
           /\ \A i, j \in 1..Len(out) : i < j => out[i] # out[j]
           /\ \A i, j \in 1..Len(out) :
                 i < j => FirstPos(ids, out[i]) < FirstPos(ids, out[j])

(***************************************************************************)
(* Properties of the pipeline run.                                         *)
(***************************************************************************)
\* C2: when a run has ended and the store accepted every item of its bulk
\* request, the store holds exactly one record per movie of the source, at
\* that movie's id, however many runs came before.
C2_OneRecordPerMovieId ==
    (pc = "Done" /\ \A i \in 1..Len(response) : ~Truthy(response[i].index.error)) =>
        /\ {r.id : r \in es_store} = {db.movies[i].id : i \in 1..Len(db.movies)}
        /\ Cardinality(es_store) = Len(db.movies)

\* the movies of the source whose transformation raises
OffendingMovies ==
    {i \in 1..Len(db.movies) :
        TransformMovie(variant, db, db.movies[i], AuthorLoadWritersNames(db)).exc # ""}

\* errors of the source and of the transport, as opposed to errors of a row
FatalErrors == {"FileNotFoundError", "ConnectionError", "OperationalError"}

\* C8: a run that met no fatal error ends Done, whatever rows failed to
\* transform; the Documents submitted are those of all the other movies, in
\* number total_extracted - total_transform_errors.
C8_RowErrorSkipsOnlyThatMovie ==
    (pc \in {"Done", "Failed"} /\ raised \notin FatalErrors) =>
        /\ pc = "Done"
        /\ Len(movies) = Len(db.movies) - Cardinality(OffendingMovies)
        /\ Len(PayloadLines) = 2 * Len(movies)
        /\ \A i \in 1..Len(db.movies) :
              i \notin OffendingMovies =>
                  \E k \in 1..Len(movies) :
                      /\ movies[k].id = db.movies[i].id
                      /\ PayloadLines[2 * k] = JsonObj(movies[k])

\* rank of a phase in Idle, EnsuringIndex, Extracting, Transforming, Loading,
\* Done
Phase(p) ==
    CASE p = "Idle" -> 0
      [] p = "EnsuringIndex" -> 1
      [] p = "Extracting" -> 2
      [] p = "Transforming" -> 3
      [] p = "Loading" -> 4
      [] p = "Done" -> 5
      [] OTHER -> 6

\* C10: within a run the phases follow one another in the order Idle,
\* EnsuringIndex, Extracting, Transforming, Loading, Done (extraction and
\* transformation alternating movie by movie); Failed is entered only from
\* EnsuringIndex or Extracting; and a run in Loading goes to Done, never to
\* Failed.
C10_PhasesAndFailures ==
    [][/\ (pc' = "Failed" /\ pc # "Failed") => pc \in {"EnsuringIndex", "Extracting"}
       /\ pc = "Loading" => pc' \in {"Loading", "Done"}
       /\ (pc \notin {"Done", "Failed"} /\ pc' # "Failed") =>
              \/ Phase(pc) <= Phase(pc')
              \/ pc = "Transforming" /\ pc' = "Extracting"]_vars

(***************************************************************************)
(* Properties of index creation and of the sending of bulk requests.       *)
(***************************************************************************)
\* C11: a bulk request is sent in a run only after every extraction query
\* completed without error and, where the run creates the index, after index
\* creation succeeded (the index was created or already existed).
C11_NoBulkBeforeIndexAndExtraction ==
    payload # <<>> =>
        /\ cursor = Len(db.movies)
        /\ raised # "OperationalError"
        /\ variant = "etl" =>
              /\ es_index.t = "put"
              /\ es_index.answer \in {"created", "exists"}

\* C12: a run gets past index creation only when the creation request went
\* to the index named by index_name and the store answered that the index
\* was created or already exists; any other answer is fatal.
C12_CreateIndexIdempotentAndTargeted ==
    (variant = "etl" /\ pc \in {"Extracting", "Transforming", "Loading", "Done"}) =>
        /\ es_index.t = "put"
        /\ es_index.url = index_name.v
        /\ es_index.answer \in {"created", "exists"}

\* C13: when the transport of a bulk request has failed on every attempt, the
\* run is not failed by it, and every Document of the batch is recorded as
\* failed with the transport error as cause, none as succeeded.
C13_TransportFailureRecordedPerDocument ==
    (payload # <<>> /\ raised = "ConnectionError") =>
        /\ pc # "Failed"
        /\ Len(log) = Len(movies)
        /\ \A i \in 1..Len(movies) :
              /\ "id" \in DOMAIN log[i]
              /\ log[i].id = movies[i].id
              /\ "cause" \in DOMAIN log[i]
              /\ log[i].cause = raised

\* C14: whatever batch size b >= 1 is configured, a call given more than b
\* Documents sends them in several bulk requests, none of which carries more
\* than b Documents.
C14_BatchesOfAtMostBatchSize ==
    \A b \in 1..MaxRecords :
        (pc = "Done" /\ Len(movies) > b) =>
            /\ posts > 1
            /\ Len(PayloadLines) <= 2 * b

(***************************************************************************)
(* Properties of the scalar fields of the Documents.                       *)
(***************************************************************************)
\* the elements of a comma-separated text, each without surrounding spaces
CommaSeparated(raw) ==
    LET parts == SplitOn(raw.v, <<",">>)
    IN List([i \in 1..Len(parts) |-> Str(Strip(parts[i]))])

\* what a genre or director field is to be for a raw value
SplitAndTrimmed(raw, field) ==
    IF raw \in NONE_PATTERNS THEN IsNone(field)
    ELSE /\ field = CommaSeparated(raw)
         /\ \A i \in 1..Len(field.v) : field.v[i].v # <<>>

\* C15: the genre (the director) of a Document is the list of the elements
\* of the raw text split on commas, each trimmed of surrounding whitespace
\* and non-empty, inner characters unchanged; it is null for a raw value that
\* is a null-sentinel.
C15_GenreAndDirectorSplitAndTrimmed ==
    pc = "Returned" =>
        /\ SplitAndTrimmed(tr_in.row.genre, Document.genre)
        /\ SplitAndTrimmed(tr_in.row.director, Document.director)

\* a raw value and the field made of it: null exactly for the sentinels
NullIffSentinel(raw, field) == IsNone(field) <=> raw \in NONE_PATTERNS

\* C16: each of title, description, imdb_rating, director and genre is null
\* in the Document when its raw value is "N/A" or "", and only then.
C16_BothSentinelsYieldNull ==
    pc = "Returned" =>
        /\ NullIffSentinel(tr_in.row.title, Document.title)
        /\ NullIffSentinel(tr_in.row.plot, Document.description)
        /\ NullIffSentinel(tr_in.row.imdb_rating, Document.imdb_rating)
        /\ NullIffSentinel(tr_in.row.director, Document.director)
        /\ NullIffSentinel(tr_in.row.genre, Document.genre)

(***************************************************************************)
(* Properties of the resolution of a movie's writers.                      *)
(***************************************************************************)
\* the ids a list holds
IdSet(ids) == {ids[i] : i \in 1..Len(ids)}

\* C17: the writers of a movie are looked up by the id set {writer} when
\* writer is non-empty and else by the ids of the JSON list in writers; when
\* that set is empty no writer query is executed and writers and
\* writers_names are null.
C17_WriterIdSetAndNoQueryWhenEmpty ==
    pc = "Returned" =>
        /\ \A k \in 1..Len(queries) : IdSet(queries[k]) = IdSet(ResolvedWriterIds)
        /\ IdSet(DocumentWriterIds) \subseteq IdSet(ResolvedWriterIds)
        /\ ResolvedWriterIds = <<>> =>
              /\ queries = <<>>
              /\ IsNone(Document.writers)
              /\ IsNone(Document.writers_names)

(***************************************************************************)
(* Properties of the requests of a run and of the ids they carry.          *)
(***************************************************************************)
\* the errors the items of the last response report, in the order of the items
ReportedErrors ==
    LET failed == SelectSeq(response, LAMBDA item : ~IsNone(item.index.error))
    IN [i \in 1..Len(failed) |-> failed[i].index.error]

\* C18: an item-level error is never retried: a run sends at most one bulk
\* request that is answered, every Document is in it once, and what is
\* recorded of the outcome (the errors etl_author.py logs) is what the items
\* of that answer report, in their order.
C18_ItemErrorsNeverResent ==
    /\ posts <= 1
    /\ pc = "Done" =>
          /\ posts = 1
          /\ Len(PayloadLines) = 2 * Len(movies)
          /\ Len(response) = Len(movies)
          /\ \A i \in 1..Len(movies) : PayloadLines[2 * i] = JsonObj(movies[i])
          /\ log = (IF variant = "etl_author" THEN ReportedErrors ELSE <<>>)

\* C18 witness: etl_author.py ended a run whose answer reports an error for
\* one Document and none for another.
C18_Witness ==
    /\ pc = "Done"
    /\ variant = "etl_author"
    /\ \E i, j \in 1..Len(response) :
          /\ ~IsNone(response[i].index.error)
          /\ IsNone(response[j].index.error)

\* the (_index, _id) of the action lines of a request body, in order
BodyKeys(body) ==
    LET lines == SelectSeq(body, LAMBDA seg : seg # NL)
    IN [i \in 1..(Len(lines) \div 2) |->
           <<lines[2 * i - 1].v.index._index, lines[2 * i - 1].v.index._id>>]

\* C19: the request etl/esloader.py builds for n records carries the ids
\* 'my_id', 'my_id2', ..., 'my_id<n>' in this order: they are pairwise
\* distinct and the same for every list of n records, so that two calls with
\* lists of the same length write the same store keys.
C19_IdsAreOrdinals ==
    (variant = "etl" /\ payload # <<>>) =>
        LET keys == BodyKeys(payload)
        IN /\ Len(keys) = Len(movies)
           /\ \A i \in 1..Len(keys) :
                 keys[i][2] = Str(MY_ID \o (IF i = 1 THEN <<>> ELSE IntToChars(i)))
           /\ \A i, j \in 1..Len(keys) : i # j => keys[i] # keys[j]
           /\ \A other \in [1..Len(movies) -> LoadDocs] :
                 BodyKeys(BulkBody(variant, other, index_name)) = keys
           /\ (pc = "Done" /\ ReportedErrors = <<>>) =>
                 {<<r.index, r.id>> : r \in es_store} = {keys[i] : i \in 1..Len(keys)}

\* C19 witness: etl/esloader.py sent a request for three records of which
\* two have the same id.
C19_Witness ==
    /\ variant = "etl"
    /\ pc = "Done"
    /\ Len(movies) = 3
    /\ movies[1].id = movies[2].id
    /\ movies[1] # movies[2]

(***************************************************************************)
(* The read API, web/main.py: one request to /api/movies and the reply to  *)
(* it.  request.args is a record of the five parameters the handler reads, *)
(* None standing for an absent one.                                        *)
(***************************************************************************)
\* len(request.args)
ArgCount(args) == Cardinality({k \in DOMAIN args : ~IsNone(args[k])})

\* request.args.get(key, default)
ArgsGet(args, key, default) == IF IsNone(args[key]) THEN default ELSE args[key]

\* int(x) of an int or of a str: optional sign and decimal digits, spaces
\* around them ignored; any other text of the alphabet used here is a
\* ValueError
PyIntOf(x) ==
    IF x.t = "int" THEN Ok(x)
    ELSE LET s == Strip(x.v)
             signed == s # <<>> /\ Head(s) \in {"-", "+"}
             digits == IF signed THEN Tail(s) ELSE s
         IN IF digits # <<>> /\ \A i \in 1..Len(digits) : IsDigit(digits[i])
            THEN Ok(PyInt(IF signed /\ Head(s) = "-" THEN 0 - DigitsToInt(digits)
                          ELSE DigitsToInt(digits)))
            ELSE Raise("ValueError")

ID == <<"i", "d">>
ASC == <<"a", "s", "c">>

\* the permitted sort fields, with a field too many
SortFieldsAndZ ==
    {Str(ID), Str(<<"t", "i", "t", "l", "e">>),
     Str(<<"i", "m", "d", "b", "_", "r", "a", "t", "i", "n", "g">>), Str(<<"z">>)}

\* the permitted sort fields and sort orders
SortFields ==
    {Str(ID), Str(<<"t", "i", "t", "l", "e">>),
     Str(<<"i", "m", "d", "b", "_", "r", "a", "t", "i", "n", "g">>)}

SortOrders == {Str(ASC), Str(<<"d", "e", "s", "c">>)}

\* movie_list, the checks: the message of the check that fails, "" when
\* none does or the request has no parameter
MovieListError(args) ==
    IF ArgCount(args) > 0
    THEN LET limit == PyIntOf(ArgsGet(args, "limit", PyInt(0)))
             page == PyIntOf(ArgsGet(args, "page", PyInt(0)))
         IN IF limit.exc # "" THEN "ERROR: Limit should be an integer"
            ELSE IF page.exc # "" THEN "ERROR: Page should be an integer"
            ELSE IF limit.v.v < 0
            THEN "ERROR: Limit should be positive or equals to zero"
            ELSE IF page.v.v <= 0 THEN "ERROR: Page should be positive"
            ELSE IF Truthy(args.sort) /\ args.sort \notin SortFields
            THEN "ERROR: Sort field is not permitted"
            ELSE IF Truthy(args.sort_order) /\ args.sort_order \notin SortOrders
            THEN "ERROR: Sort order is not permitted"
            ELSE ""
    ELSE ""

\* the keyword arguments movie_list calls es.get_list with
GetListArgs(args) ==
    [limit |-> ArgsGet(args, "limit", PyInt(50)), page |-> args.page,
     sort |-> args.sort, sort_order |-> args.sort_order,
     search |-> ArgsGet(args, "search", Str(<<>>))]

\* Elasticsearch.get_list: the query it sends for its arguments
GetListQuery(kw) ==
    [size |-> IF Truthy(kw.limit) THEN kw.limit ELSE None,
     from |-> IF Truthy(kw.page) THEN PyInt(PyIntOf(kw.page).v.v - 1) ELSE None,
     sort |-> IF Truthy(kw.sort) /\ Truthy(kw.sort_order)
              THEN [field |-> kw.sort, order |-> kw.sort_order]
              ELSE [field |-> Str(ID), order |-> Str(ASC)],
     search |-> IF Truthy(kw.search) THEN kw.search ELSE None]

\* the values a parameter of a request takes
Limits == {None, Str(<<>>), Str(<<"0">>), Str(<<"5">>), Str(<<"-", "1">>), Str(<<"x">>)}
Pages == {None, Str(<<>>), Str(<<"0">>), Str(<<"2">>), Str(<<"-", "1">>), Str(<<"x">>)}
Sorts == {None, Str(<<>>), Str(ID), Str(<<"z">>)}
Orders == {None, Str(<<>>), Str(ASC), Str(<<"z">>)}
Searches == {None, Str(<<"s">>)}

Requests ==
    {[limit |-> l, page |-> p, sort |-> s, sort_order |-> o, search |-> q] :
        l \in Limits, p \in Pages, s \in Sorts, o \in Orders, q \in Searches}

\* what the search backend may hold for a query
Hits == {<<>>, <<[id |-> Str(<<"a">>), title |-> Str(<<"T">>)]>>}

InitWeb ==
    /\ web \in {[NoRequest EXCEPT !.args = a, !.at = "request"] : a \in Requests}
    /\ variant = "etl"
    /\ db = EmptyDb
    /\ index_name = Str(MOVIES)
    /\ pc = "Idle"
    /\ cursor = 0
    /\ movies = <<>>
    /\ writers_by_id = <<>>
    /\ raised = ""
    /\ payload = <<>>
    /\ response = <<>>
    /\ log = <<>>
    /\ es_index = None
    /\ es_store = {}
    /\ posts = 0
    /\ runs = 0
    /\ tr_in = NoTransform
    /\ tr_out = <<>>
    /\ queries = <<>>

\* movie_list returns at a failed check: 422 and the message
MovieListRejects ==
    /\ web.at = "request"
    /\ MovieListError(web.args) # ""
    /\ web' = [web EXCEPT !.at = "replied", !.status = 422,
                          !.message = MovieListError(web.args)]
    /\ UNCHANGED <<variant, db, index_name, pc, cursor, movies, writers_by_id, raised,
                   payload, response, log, es_index, es_store, posts, runs,
                   tr_in, tr_out, queries>>

\* movie_list passes the checks, calls es.get_list and returns the movies
\* the search backend answers with
MovieListReturns ==
    /\ web.at = "request"
    /\ MovieListError(web.args) = ""
    /\ \E found \in Hits :
          web' = [web EXCEPT !.at = "replied", !.status = 200,
                             !.get_list = <<GetListQuery(GetListArgs(web.args))>>,
                             !.hits = found]
    /\ UNCHANGED <<variant, db, index_name, pc, cursor, movies, writers_by_id, raised,
                   payload, response, log, es_index, es_store, posts, runs,
                   tr_in, tr_out, queries>>

\* movie_list passes the checks and es.get_list raises (the search backend
\* cannot be reached, or its answer has no hits): the reply is a 500
MovieListRaises ==
    /\ web.at = "request"
    /\ MovieListError(web.args) = ""
    /\ web' = [web EXCEPT !.at = "replied", !.status = 500,
                          !.get_list = <<GetListQuery(GetListArgs(web.args))>>]
    /\ UNCHANGED <<variant, db, index_name, pc, cursor, movies, writers_by_id, raised,
                   payload, response, log, es_index, es_store, posts, runs,
                   tr_in, tr_out, queries>>

NextWeb == MovieListRejects \/ MovieListReturns \/ MovieListRaises

SpecWeb == InitWeb /\ [][NextWeb]_vars

(***************************************************************************)
(* Properties of the read API.                                             *)
(***************************************************************************)
\* limit or page is no integer, limit < 0 or page <= 0, an absent one
\* counting as 0
BadLimitOrPage(args) ==
    LET limit == PyIntOf(ArgsGet(args, "limit", PyInt(0)))
        page == PyIntOf(ArgsGet(args, "page", PyInt(0)))
    IN \/ limit.exc # ""
       \/ page.exc # ""
       \/ limit.v.v < 0
       \/ page.v.v <= 0

\* a value outside {id, title, imdb_rating}, outside {asc, desc}
OutsideSortFields(x) ==
    /\ x # Str(<<"i", "d">>)
    /\ x # Str(<<"t", "i", "t", "l", "e">>)
    /\ x # Str(<<"i", "m", "d", "b", "_", "r", "a", "t", "i", "n", "g">>)

OutsideSortOrders(x) == x # Str(<<"a", "s", "c">>) /\ x # Str(<<"d", "e", "s", "c">>)

\* the reply to a request with parameters of which bad tells whether a check
\* fails: 422 whenever one fails, es.get_list called only when none fails,
\* and always when the request has no parameter
RepliesAsChecked(bad) ==
    web.at = "replied" =>
        /\ (ArgCount(web.args) > 0 /\ bad) => web.status = 422
        /\ web.get_list # <<>> => ~(ArgCount(web.args) > 0 /\ bad)
        /\ ArgCount(web.args) = 0 => web.get_list # <<>>

\* C20 as stated: a request to /api/movies with at least one parameter is
\* answered 422 whenever limit or page is no integer, limit < 0, page <= 0,
\* the sort given is outside {id, title, imdb_rating} or the sort_order given
\* is outside {asc, desc}; es.get_list is called only when no check fails,
\* and always when the request has no parameter.
C20_RejectsEverySortOutside ==
    RepliesAsChecked(\/ BadLimitOrPage(web.args)
                     \/ ~IsNone(web.args.sort) /\ OutsideSortFields(web.args.sort)
                     \/ /\ ~IsNone(web.args.sort_order)
                        /\ OutsideSortOrders(web.args.sort_order))

\* C20 amended: as C20, the checks of sort and sort_order failing only for
\* a non-empty value outside the permitted ones: an empty sort or sort_order
\* is taken as absent.
C20_RejectsNonEmptySortOutside ==
    RepliesAsChecked(\/ BadLimitOrPage(web.args)
                     \/ Truthy(web.args.sort) /\ OutsideSortFields(web.args.sort)
                     \/ /\ Truthy(web.args.sort_order)
                        /\ OutsideSortOrders(web.args.sort_order))

\* C20 witness: a request whose limit and page pass was answered 422 for its
\* sort field.
C20_Witness ==
    /\ web.at = "replied"
    /\ web.status = 422
    /\ ~BadLimitOrPage(web.args)
    /\ web.args.sort = Str(<<"z">>)
    /\ web.get_list = <<>>

====
